---- MODULE Spec2Model ----
(***************************************************************************)
(* A model of rsa-simple-py3: the SimpleRSA class of rsa.py (modular       *)
(* arithmetic, Fermat and Miller-Rabin tests, prime search, key            *)
(* generation, encrypt and decrypt) and the PEM writers of pem.py.         *)
(*                                                                         *)
(* Python values are modelled as follows: an int is an integer, a tuple a  *)
(* sequence, bytes a sequence of 0..255, a str the sequence of its code    *)
(* points.  A call's outcome is a record [err, val]: err = "none" and the  *)
(* value returned, or the name of the exception raised.                    *)
(***************************************************************************)
EXTENDS Integers, Sequences, FiniteSets, TLC

VARIABLES
    public_key,   \* self.public_key : NoAttr until generate_keypair sets it
    private_key,  \* self.private_key: NoAttr until generate_keypair sets it
    byteorder,    \* sys.byteorder of the platform, fixed for a run
    file,         \* the content of the key file the PEM writers are given
    pc,           \* position of the one thread of control
    size,         \* generate_keypair: argument size
    p, q,         \* generate_keypair: the two primes (0 while not yet found)
    lam, e,       \* generate_keypair: lam and e
    candidate,    \* _find_prime: candidate under test
    i,            \* witness loops: number of witnesses that passed so far
    s, d,         \* _miller_rabin_prime: number - 1 = 2^s * d
    ret,          \* the last call: [op, args, err, val, frame]
    wire,         \* <<plaintext integer, ciphertext>> of the encrypt that the
                  \* calls since then decrypt (<<>> when there is none)
    written       \* <<label, key tuple>> handed to the PEM writer that the
                  \* calls since then read back (<<>> when there is none)

vars == <<public_key, private_key, byteorder, file, pc, size, p, q, lam, e,
          candidate, i, s, d, ret, wire, written>>

----------------------------------------------------------------------------
(* Bounds of the exploration *)

\* generate_keypair is called with size SmallSize or LargeSize
SmallSize == 6
LargeSize == 16
\* secrets.randbits draws are explored in 0..MaxSmallDraw and in ExtraDraws
MaxSmallDraw == 7
\* 15 passes the Fermat test with witnesses 4 and 11; 191 is the least prime
\* p with 19 | p - 1, which makes gcd(e, lam) # 1
ExtraDraws == {14, 190}
\* witnesses drawn by randrange(2, number-1) are explored up to this value
MaxWitnessDraw == 14
\* exponents drawn by randrange(3, lam) are explored up to this value
MaxEDraw == 8
\* iterations of the factoring loop of _miller_rabin_prime that are followed
MaxFactorSteps == 9
\* integer plaintexts and ciphertexts handed to encrypt and decrypt
MaxPlain == 36
\* arguments of the arithmetic functions called on their own
MaxBase == 6
MaxExponent == 6
MaxModulus == 7
MaxInverse == 12
MaxNumber == 26
MaxWitnesses == 2

----------------------------------------------------------------------------
(* Outcomes of calls *)

None == "None"
Ok(v) == [err |-> "none", val |-> v]
Raise(x) == [err |-> x, val |-> None]

\* the value of an instance attribute that was never assigned
NoAttr == <<"no such attribute">>

----------------------------------------------------------------------------
(* Python built-ins used by the code *)

\* random.randrange(lo, hi): the values it can return; none means ValueError
randrange(lo, hi) == lo .. (hi - 1)

RECURSIVE pow2(_)
pow2(k) == IF k = 0 THEN 1 ELSE 2 * pow2(k - 1)

\* secrets.randbits(k): the values it can return
randbits(k) == 0 .. (pow2(k) - 1)

\* a ^ b on non-negative ints (bitwise exclusive or)
RECURSIVE BitXor(_, _)
BitXor(a, b) ==
    IF a = 0 /\ b = 0 THEN 0
    ELSE (((a % 2) + (b % 2)) % 2) + 2 * BitXor(a \div 2, b \div 2)

\* int.bit_length()
RECURSIVE bit_length(_)
bit_length(x) == IF x = 0 THEN 0 ELSE 1 + bit_length(x \div 2)

Reverse(b) == [k \in 1 .. Len(b) |-> b[Len(b) + 1 - k]]

RECURSIVE from_bytes_little(_)
from_bytes_little(b) ==
    IF b = <<>> THEN 0 ELSE b[1] + 256 * from_bytes_little(Tail(b))

\* int.from_bytes(b, byteorder=order)
from_bytes(b, order) ==
    IF order = "little" THEN from_bytes_little(b)
    ELSE from_bytes_little(Reverse(b))

RECURSIVE to_bytes_little(_, _)
to_bytes_little(x, length) ==
    IF length = 0 THEN <<>>
    ELSE <<x % 256>> \o to_bytes_little(x \div 256, length - 1)

\* int.to_bytes(length, order), for an x that fits in length bytes
to_bytes(x, length, order) ==
    IF order = "little" THEN to_bytes_little(x, length)
    ELSE Reverse(to_bytes_little(x, length))

\* str.encode(): UTF-8 of a sequence of code points below 65536
RECURSIVE str_encode(_)
str_encode(text) ==
    IF text = <<>> THEN <<>>
    ELSE LET c == text[1]
             head == IF c < 128 THEN <<c>>
                     ELSE IF c < 2048
                          THEN <<192 + (c \div 64), 128 + (c % 64)>>
                          ELSE <<224 + (c \div 4096),
                                 128 + ((c \div 64) % 64), 128 + (c % 64)>>
         IN  head \o str_encode(Tail(text))

\* bytes.decode(): strict UTF-8; UnicodeDecodeError on malformed input
RECURSIVE bytes_decode(_)
bytes_decode(b) ==
    IF b = <<>> THEN Ok(<<>>)
    ELSE LET b1 == b[1]
             need == IF b1 < 128 THEN 1
                     ELSE IF b1 \in 194 .. 223 THEN 2
                     ELSE IF b1 \in 224 .. 239 THEN 3
                     ELSE IF b1 \in 240 .. 244 THEN 4
                     ELSE 0
         IN  IF need = 0 \/ Len(b) < need THEN Raise("UnicodeDecodeError")
             ELSE LET lo2 == IF b1 = 224 THEN 160
                             ELSE IF b1 = 240 THEN 144 ELSE 128
                      hi2 == IF b1 = 237 THEN 159
                             ELSE IF b1 = 244 THEN 143 ELSE 191
                      valid == /\ (need >= 2 => b[2] \in lo2 .. hi2)
                               /\ \A k \in 3 .. need : b[k] \in 128 .. 191
                      cp == IF need = 1 THEN b1
                            ELSE IF need = 2
                                 THEN (b1 - 192) * 64 + (b[2] - 128)
                            ELSE IF need = 3
                                 THEN (b1 - 224) * 4096 + (b[2] - 128) * 64
                                      + (b[3] - 128)
                            ELSE (b1 - 240) * 262144 + (b[2] - 128) * 4096
                                 + (b[3] - 128) * 64 + (b[4] - 128)
                      rest == bytes_decode(SubSeq(b, need + 1, Len(b)))
                  IN  IF ~valid THEN Raise("UnicodeDecodeError")
                      ELSE IF rest.err # "none" THEN rest
                      ELSE Ok(<<cp>> \o rest.val)

----------------------------------------------------------------------------
(* rsa.py: the modular arithmetic kernel *)

DEFAULT_WITNESS_COUNT == 40

\* the while loop of _modular_pow
RECURSIVE modular_pow_loop(_, _, _, _)
modular_pow_loop(base, exponent, modulus, result) ==
    IF exponent > 0
    THEN modular_pow_loop((base * base) % modulus, exponent \div 2, modulus,
                          IF exponent % 2 = 1 THEN (result * base) % modulus
                          ELSE result)
    ELSE result

\* a _modular_pow that lacks the modulus == 1 case
modular_pow_unguarded(base, exponent, modulus) ==
    modular_pow_loop(base % modulus, exponent, modulus, 1)

modular_pow(base, exponent, modulus) ==
    IF modulus = 1 THEN 0
    ELSE modular_pow_loop(base % modulus, exponent, modulus, 1)

RECURSIVE gcd_euclidean(_, _)
gcd_euclidean(a, b) == IF b > 0 THEN gcd_euclidean(b, a % b) ELSE a

lcm(a, b) == (a * b) \div gcd_euclidean(a, b)

\* the while loop of _mod_mult_inverse; returns old_s
RECURSIVE bezout_loop(_, _, _, _)
bezout_loop(old_r, r, old_s, s1) ==
    IF r # 0
    THEN LET quotient == old_r \div r
         IN  bezout_loop(r, old_r - (quotient * r), s1, old_s - (quotient * s1))
    ELSE old_s

\* a _mod_mult_inverse that returns the Bezout coefficient as it is
mod_mult_inverse_raw(a, n) == bezout_loop(a, n, 1, 0)

mod_mult_inverse(a, n) ==
    LET old_s == bezout_loop(a, n, 1, 0)
    IN  ((old_s % n) + n) % n

----------------------------------------------------------------------------
(* rsa.py: the primality tests *)

\* the witnesses that randrange(2, number-1) can return
witness_range(number) == randrange(2, number - 1)

\* one iteration of the for loop of _fermat_prime with the witness drawn:
\* TRUE to go on with the loop, FALSE for return False
fermat_round(number, witness) ==
    modular_pow(witness, number - 1, number) = 1

\* _fermat_prime(number, witnesses) when randrange returns draws[1], draws[2], ...
RECURSIVE fermat_loop(_, _, _, _)
fermat_loop(number, witnesses, draws, k) ==
    IF k > witnesses THEN Ok(TRUE)
    ELSE IF witness_range(number) = {} THEN Raise("ValueError")
    ELSE IF fermat_round(number, draws[k])
         THEN fermat_loop(number, witnesses, draws, k + 1)
         ELSE Ok(FALSE)

fermat_prime(number, witnesses, draws) ==
    IF number = 2 \/ number = 1 THEN Ok(TRUE)
    ELSE fermat_loop(number, witnesses, draws, 1)

\* the first test of _miller_rabin_prime
mr_rejects_even(number) == number # 2 /\ number % 2 = 0

\* the while loop of _miller_rabin_prime, from <<s, d>> to its exit
RECURSIVE mr_factor(_, _)
mr_factor(s1, d1) ==
    IF d1 % 2 = 0 THEN mr_factor(s1 + 1, d1 \div 2) ELSE <<s1, d1>>

\* the value of y before its first assignment
Unbound == -1

\* for _ in range(s): k iterations are left, x and y as they stand.
\* <<FALSE, y>> for return False, else <<TRUE, y>> with the last y
RECURSIVE mr_squarings(_, _, _, _)
mr_squarings(x, y, k, number) ==
    IF k = 0 THEN <<TRUE, y>>
    ELSE LET y1 == modular_pow(x, 2, number)
         IN  IF y1 = 1 /\ x # 1 /\ x # number - 1 THEN <<FALSE, y1>>
             ELSE mr_squarings(y1, y1, k - 1, number)

\* a witness iteration that lacks the final test of y
mr_round_no_final_test(number, s1, d1, a) ==
    LET r == mr_squarings(modular_pow(a, d1, number), Unbound, s1, number)
    IN  Ok(r[1])

\* one iteration of the witness loop of _miller_rabin_prime with a drawn:
\* Ok(TRUE) to go on with the loop, Ok(FALSE) for return False
mr_round(number, s1, d1, a) ==
    LET r == mr_squarings(modular_pow(a, d1, number), Unbound, s1, number)
    IN  IF ~r[1] THEN Ok(FALSE)
        ELSE IF r[2] = Unbound THEN Raise("UnboundLocalError")
        ELSE IF r[2] # 1 THEN Ok(FALSE)
        ELSE Ok(TRUE)

RECURSIVE mr_loop(_, _, _, _, _, _)
mr_loop(number, s1, d1, witnesses, draws, k) ==
    IF k > witnesses THEN Ok(TRUE)
    ELSE IF witness_range(number) = {} THEN Raise("ValueError")
    ELSE LET r == mr_round(number, s1, d1, draws[k])
         IN  IF r.err = "none" /\ r.val
             THEN mr_loop(number, s1, d1, witnesses, draws, k + 1)
             ELSE r

\* _miller_rabin_prime(number, witnesses) when randrange returns draws[1], ...
miller_rabin_prime(number, witnesses, draws) ==
    IF mr_rejects_even(number) THEN Ok(FALSE)
    ELSE LET sd == mr_factor(0, number - 1)
         IN  mr_loop(number, sd[1], sd[2], witnesses, draws, 1)

----------------------------------------------------------------------------
(* pem.py *)

\* base64.b64encode of bytes: the 6-bit digits, 64 standing for '='
RECURSIVE base64_digits(_)
base64_digits(b) ==
    IF b = <<>> THEN <<>>
    ELSE IF Len(b) = 1
         THEN <<b[1] \div 4, (b[1] % 4) * 16, 64, 64>>
    ELSE IF Len(b) = 2
         THEN <<b[1] \div 4, (b[1] % 4) * 16 + (b[2] \div 16),
                (b[2] % 16) * 4, 64>>
    ELSE <<b[1] \div 4, (b[1] % 4) * 16 + (b[2] \div 16),
           (b[2] % 16) * 4 + (b[3] \div 64), b[3] % 64>>
         \o base64_digits(SubSeq(b, 4, Len(b)))

\* base64.b64encode(x): TypeError unless x is bytes
b64encode(x) == IF x = None THEN Raise("TypeError") ELSE Ok(base64_digits(x))

\* to_der_sequence(*args): the body is pass
to_der_sequence(args) == None

\* write_public_key and write_private_key: the markers are built, the key is
\* handed to to_der_sequence and its result to b64encode; the body then ends
\* with pass, so the file is never opened
write_key(label, key_tuple) ==
    LET der == to_der_sequence(<<key_tuple>>)
        data == b64encode(der)
    IN  IF data.err # "none" THEN data ELSE Ok(None)

----------------------------------------------------------------------------
(* rsa.py: the operations on a SimpleRSA object *)

\* not self.<key>, on an attribute that exists
Falsy(key) == Len(key) = 0

\* e = (2 ^ 16) + 1
initial_e == BitXor(2, 16) + 1

\* a loop condition with the comparison inverted
e_is_rejected_inverted(e1, lam1) == gcd_euclidean(e1, lam1) = 1

\* while self._gcd_euclidean(e, lam) != 1
e_is_rejected(e1, lam1) == gcd_euclidean(e1, lam1) # 1

\* if type(plaintext) == str: plaintext = int.from_bytes(plaintext.encode(), ...)
plain_int(plaintext, order) ==
    IF plaintext.type = "str"
    THEN from_bytes(str_encode(plaintext.v), order)
    ELSE plaintext.v

encrypt(pub, plaintext, order) ==
    IF pub = NoAttr THEN Raise("AttributeError")
    ELSE IF Falsy(pub) THEN Raise("Exception: No public key is set")
    ELSE Ok(modular_pow(plain_int(plaintext, order), pub[2], pub[1]))

decrypt(priv, encrypted_text, type, order) ==
    IF priv = NoAttr THEN Raise("AttributeError")
    ELSE IF Falsy(priv) THEN Raise("Exception: No private key is set")
    ELSE LET plainint == modular_pow(encrypted_text, priv[2], priv[1])
         IN  IF type = "str"
             THEN LET length == (bit_length(plainint) + 7) \div 8
                  IN  bytes_decode(to_bytes(plainint, length, order))
             ELSE Ok(plainint)

save_key(label, key) ==
    IF key = NoAttr THEN Raise("AttributeError")
    ELSE IF Falsy(key) THEN Raise("Exception: No " \o label \o " key is set")
    ELSE write_key(label, key)

\* load_public_key and load_private_key: the body is pass
load_key(path) == Ok(None)

----------------------------------------------------------------------------
(* The state machine *)

\* the locals of generate_keypair and of the calls below it
NoFrame == [size |-> 0, p |-> 0, q |-> 0, lam |-> 0, e |-> 0, candidate |-> 0]

\* the outcome of a call that has not ended
Pending == [err |-> "running", val |-> None]

Call(op, args, outcome) ==
    [op |-> op, args |-> args, err |-> outcome.err, val |-> outcome.val,
     frame |-> NoFrame]

Sizes == {SmallSize, LargeSize}
Draws(k) == {r \in randbits(k) : r <= MaxSmallDraw \/ r \in ExtraDraws}
WitnessDraws(number) == {w \in witness_range(number) : w <= MaxWitnessDraw}
EDraws(lam1) == {x \in randrange(3, lam1) : x <= MaxEDraw}
Texts == {<<>>, <<65>>, <<0, 1>>, <<233>>}
Plaintexts == [type : {"int"}, v : 0 .. MaxPlain] \cup [type : {"str"}, v : Texts]
Labels == {"PUBLIC", "PRIVATE"}

Init ==
    /\ public_key = NoAttr
    /\ private_key = NoAttr
    /\ byteorder \in {"little", "big"}
    /\ file = None
    /\ pc = "idle"
    /\ size = 0 /\ p = 0 /\ q = 0 /\ lam = 0 /\ e = 0
    /\ candidate = 0 /\ i = 0 /\ s = 0 /\ d = 0
    /\ ret = Call("__init__", <<>>, Ok(None))
    /\ wire = <<>>
    /\ written = <<>>

object == <<public_key, private_key>>
platform == <<byteorder, file>>
test_locals == <<candidate, i, s, d>>

\* generate_keypair(size) is entered: prime_size = size // 2, first _find_prime
CallGenerateKeypair(sz) ==
    /\ pc = "idle"
    /\ pc' = "find_prime"
    /\ size' = sz
    /\ p' = 0 /\ q' = 0 /\ lam' = 0 /\ e' = 0
    /\ candidate' = 0 /\ i' = 0 /\ s' = 0 /\ d' = 0
    /\ ret' = Call("generate_keypair", <<sz>>, Pending)
    /\ wire' = <<>>
    /\ written' = <<>>
    /\ UNCHANGED <<object, platform>>

\* the locals when generate_keypair is left
Frame ==
    [size |-> size, p |-> p, q |-> q, lam |-> lam, e |-> e,
     candidate |-> candidate]

\* the frames of generate_keypair and of its callees are dropped
DropFrame ==
    /\ size' = 0 /\ p' = 0 /\ q' = 0 /\ lam' = 0 /\ e' = 0
    /\ candidate' = 0 /\ i' = 0 /\ s' = 0 /\ d' = 0

\* an exception leaves generate_keypair: nothing is assigned to the object
GenerateRaises(x) ==
    /\ pc' = "idle"
    /\ ret' = [ret EXCEPT !.err = x, !.frame = Frame]
    /\ DropFrame
    /\ UNCHANGED <<object, platform, wire, written>>

\* _find_prime: a candidate is drawn and made odd, _fermat_prime is entered
FindPrimeDraw ==
    /\ pc = "find_prime"
    /\ \E r \in Draws(size \div 2) :
          candidate' = IF r % 2 = 0 THEN r + 1 ELSE r
    /\ pc' = "fermat"
    /\ i' = 0
    /\ UNCHANGED <<object, platform, size, p, q, lam, e, s, d, ret,
                   wire, written>>

\* _fermat_prime: number == 2 or number == 1 returns True at once
FermatShortCircuit ==
    /\ pc = "fermat"
    /\ candidate = 2 \/ candidate = 1
    /\ pc' = "miller_rabin"
    /\ UNCHANGED <<object, platform, size, p, q, lam, e, test_locals, ret,
                   wire, written>>

\* _fermat_prime: one iteration of the witness loop
FermatRound ==
    /\ pc = "fermat"
    /\ ~(candidate = 2 \/ candidate = 1)
    /\ i < DEFAULT_WITNESS_COUNT
    /\ IF witness_range(candidate) = {}
       THEN GenerateRaises("ValueError")
       ELSE /\ \E witness \in WitnessDraws(candidate) :
                  IF fermat_round(candidate, witness)
                  THEN /\ i' = i + 1
                       /\ pc' = IF i + 1 = DEFAULT_WITNESS_COUNT
                                THEN "miller_rabin" ELSE "fermat"
                  ELSE /\ i' = 0
                       /\ pc' = "find_prime"
            /\ UNCHANGED <<object, platform, size, p, q, lam, e, candidate,
                           s, d, ret, wire, written>>

\* _miller_rabin_prime: even numbers other than 2 are rejected, else s, d = 0, number - 1
MillerRabinEnter ==
    /\ pc = "miller_rabin"
    /\ IF mr_rejects_even(candidate)
       THEN pc' = "find_prime" /\ UNCHANGED <<s, d>>
       ELSE pc' = "mr_factor" /\ s' = 0 /\ d' = candidate - 1
    /\ i' = 0
    /\ UNCHANGED <<object, platform, size, p, q, lam, e, candidate, ret,
                   wire, written>>

\* _miller_rabin_prime: one iteration of while d & 1 == 0
MRFactorStep ==
    /\ pc = "mr_factor"
    /\ d % 2 = 0
    /\ s < MaxFactorSteps
    /\ s' = s + 1
    /\ d' = d \div 2
    /\ UNCHANGED <<object, platform, pc, size, p, q, lam, e, candidate, i,
                   ret, wire, written>>

\* _miller_rabin_prime: the while loop is left with d odd
MRFactorExit ==
    /\ pc = "mr_factor"
    /\ d % 2 # 0
    /\ pc' = "mr_round"
    /\ UNCHANGED <<object, platform, size, p, q, lam, e, test_locals, ret,
                   wire, written>>

\* _miller_rabin_prime: one iteration of the witness loop. After the last one
\* _find_prime returns the candidate to generate_keypair, which stores it in
\* p, or in q and goes on to n, lam and e
MRRound ==
    /\ pc = "mr_round"
    /\ i < DEFAULT_WITNESS_COUNT
    /\ IF witness_range(candidate) = {}
       THEN GenerateRaises("ValueError")
       ELSE \E a \in WitnessDraws(candidate) :
              LET r == mr_round(candidate, s, d, a)
              IN  IF r.err # "none" THEN GenerateRaises(r.err)
                  ELSE /\ UNCHANGED <<object, platform, size, candidate, s, d,
                                      ret, wire, written>>
                       /\ IF ~r.val
                          THEN /\ pc' = "find_prime" /\ i' = 0
                               /\ UNCHANGED <<p, q, lam, e>>
                          ELSE IF i + 1 < DEFAULT_WITNESS_COUNT
                          THEN /\ pc' = "mr_round" /\ i' = i + 1
                               /\ UNCHANGED <<p, q, lam, e>>
                          ELSE IF p = 0
                          THEN /\ pc' = "find_prime" /\ i' = 0
                               /\ p' = candidate
                               /\ UNCHANGED <<q, lam, e>>
                          ELSE /\ pc' = "choose_e" /\ i' = 0
                               /\ q' = candidate
                               /\ lam' = lcm(p - 1, candidate - 1)
                               /\ e' = initial_e
                               /\ UNCHANGED p

\* generate_keypair: one iteration of the loop that resamples e
ResampleE ==
    /\ pc = "choose_e"
    /\ e_is_rejected(e, lam)
    /\ IF randrange(3, lam) = {}
       THEN GenerateRaises("ValueError")
       ELSE /\ \E e1 \in EDraws(lam) : e' = e1
            /\ UNCHANGED <<object, platform, pc, size, p, q, lam, test_locals,
                           ret, wire, written>>

\* generate_keypair: e is coprime with lam; d, the keys and the return
ReturnKeypair ==
    /\ pc = "choose_e"
    /\ ~e_is_rejected(e, lam)
    /\ LET n == p * q
           public == <<n, e>>
           private == <<n, mod_mult_inverse(e, lam)>>
       IN  /\ public_key' = public
           /\ private_key' = private
           /\ ret' = [ret EXCEPT !.err = "none", !.val = <<public, private>>,
                               !.frame = Frame]
    /\ pc' = "idle"
    /\ DropFrame
    /\ UNCHANGED <<platform, wire, written>>

Encrypt(plaintext) ==
    /\ pc = "idle"
    /\ LET r == encrypt(public_key, plaintext, byteorder)
       IN  /\ ret' = Call("encrypt", <<plaintext>>, r)
           /\ wire' = IF r.err = "none"
                      THEN <<plain_int(plaintext, byteorder), r.val>>
                      ELSE <<>>
    /\ written' = <<>>
    /\ UNCHANGED <<object, platform, pc, size, p, q, lam, e, test_locals>>

\* the ciphertexts handed to decrypt: the one on the wire, else a small one
Ciphertexts == IF wire # <<>> THEN {wire[2]} ELSE 0 .. 2

Decrypt(encrypted_text, type) ==
    /\ pc = "idle"
    /\ ret' = Call("decrypt", <<encrypted_text, type>>,
                   decrypt(private_key, encrypted_text, type, byteorder))
    /\ written' = <<>>
    /\ UNCHANGED <<object, platform, pc, size, p, q, lam, e, test_locals,
                   wire>>

\* save_public_key and save_private_key
SaveKey(label) ==
    /\ pc = "idle"
    /\ LET key == IF label = "PUBLIC" THEN public_key ELSE private_key
       IN  /\ ret' = Call("save_key", <<label>>, save_key(label, key))
           /\ written' = IF key # NoAttr /\ ~Falsy(key)
                         THEN <<label, key>> ELSE <<>>
    /\ wire' = <<>>
    /\ UNCHANGED <<object, platform, pc, size, p, q, lam, e, test_locals>>

\* load_public_key and load_private_key
LoadKey(label) ==
    /\ pc = "idle"
    /\ ret' = Call("load_key", <<label>>, load_key(file))
    /\ wire' = <<>>
    /\ UNCHANGED <<object, platform, pc, size, p, q, lam, e, test_locals,
                   written>>

Next ==
    \/ \E sz \in Sizes : CallGenerateKeypair(sz)
    \/ FindPrimeDraw
    \/ FermatShortCircuit
    \/ FermatRound
    \/ MillerRabinEnter
    \/ MRFactorStep
    \/ MRFactorExit
    \/ MRRound
    \/ ResampleE
    \/ ReturnKeypair
    \/ \E plaintext \in Plaintexts : Encrypt(plaintext)
    \/ \E c \in Ciphertexts, type \in {"int", "str"} : Decrypt(c, type)
    \/ \E label \in Labels : SaveKey(label)
    \/ \E label \in Labels : LoadKey(label)

Spec == Init /\ [][Next]_vars

----------------------------------------------------------------------------
(* The arithmetic functions and the primality tests called on their own *)

PowInputs ==
    ((0 .. MaxBase) \X (0 .. MaxExponent) \X (1 .. MaxModulus))
        \cup {<<4, 13, 497>>}

\* the sequences of values randrange can return to a call with this many
\* witnesses; the empty sequence when it can return none
DrawSeqs(number, witnesses) ==
    IF witness_range(number) = {} THEN {<<>>}
    ELSE [1 .. witnesses -> witness_range(number)]

\* a fresh object on which one call is being made
ArithInit ==
    /\ public_key = NoAttr
    /\ private_key = NoAttr
    /\ byteorder = "little"
    /\ file = None
    /\ pc = "idle"
    /\ size = 0 /\ p = 0 /\ q = 0 /\ lam = 0 /\ e = 0
    /\ candidate = 0 /\ i = 0 /\ s = 0 /\ d = 0
    /\ \/ \E x \in PowInputs : ret = Call("modular_pow", x, Pending)
       \/ \E a \in 1 .. MaxInverse, n \in 1 .. MaxInverse :
             ret = Call("mod_mult_inverse", <<a, n>>, Pending)
       \/ \E op \in {"fermat_prime", "miller_rabin_prime"} :
             \E number \in 2 .. MaxNumber, witnesses \in 1 .. MaxWitnesses :
                \E draws \in DrawSeqs(number, witnesses) :
                   ret = Call(op, <<number, witnesses, draws>>, Pending)
    /\ wire = <<>>
    /\ written = <<>>

\* the call that is being made is to op
Called(op) == ret.op = op /\ ret.err = "running"

CallModularPow ==
    /\ Called("modular_pow")
    /\ ret' = Call(ret.op, ret.args,
                   Ok(modular_pow(ret.args[1], ret.args[2], ret.args[3])))
    /\ UNCHANGED <<object, platform, pc, size, p, q, lam, e, test_locals,
                   wire, written>>

CallModMultInverse ==
    /\ Called("mod_mult_inverse")
    /\ ret' = Call(ret.op, ret.args,
                   Ok(mod_mult_inverse(ret.args[1], ret.args[2])))
    /\ UNCHANGED <<object, platform, pc, size, p, q, lam, e, test_locals,
                   wire, written>>

CallFermatPrime ==
    /\ Called("fermat_prime")
    /\ ret' = Call(ret.op, ret.args,
                   fermat_prime(ret.args[1], ret.args[2], ret.args[3]))
    /\ UNCHANGED <<object, platform, pc, size, p, q, lam, e, test_locals,
                   wire, written>>

CallMillerRabinPrime ==
    /\ Called("miller_rabin_prime")
    /\ ret' = Call(ret.op, ret.args,
                   miller_rabin_prime(ret.args[1], ret.args[2], ret.args[3]))
    /\ UNCHANGED <<object, platform, pc, size, p, q, lam, e, test_locals,
                   wire, written>>

ArithNext ==
    \/ CallModularPow
    \/ CallModMultInverse
    \/ CallFermatPrime
    \/ CallMillerRabinPrime

ArithSpec == ArithInit /\ [][ArithNext]_vars

----------------------------------------------------------------------------
(* Reference definitions the properties are stated with *)

RECURSIVE Power(_, _)
Power(b, k) == IF k = 0 THEN 1 ELSE b * Power(b, k - 1)

\* b^k mod m by repeated multiplication, reduced at every step
RECURSIVE PowerMod(_, _, _)
PowerMod(b, k, m) == IF k = 0 THEN 1 % m ELSE (b * PowerMod(b, k - 1, m)) % m

Divides(k, n) == n % k = 0
IsPrime(n) == n >= 2 /\ \A k \in 2 .. (n - 1) : ~Divides(k, n)
IsComposite(n) == n >= 2 /\ ~IsPrime(n)

\* for a >= 1 and b >= 0
GCD(a, b) ==
    CHOOSE g \in 1 .. a :
        /\ Divides(g, a) /\ Divides(g, b)
        /\ \A h \in (g + 1) .. a : ~(Divides(h, a) /\ Divides(h, b))

\* for a, b >= 1
LCM(a, b) ==
    CHOOSE m \in {k * a : k \in 1 .. b} :
        /\ Divides(b, m)
        /\ \A k \in 1 .. b : (k * a < m) => ~Divides(b, k * a)

\* a is a strong liar for the odd number n > 2: with n - 1 = 2^t * u, u odd,
\* a^u = 1 or a^(2^r * u) = -1 (mod n) for some r < t
StrongLiar(a, n) ==
    LET t == CHOOSE k \in 0 .. n : Divides(pow2(k), n - 1)
                                   /\ ~Divides(pow2(k + 1), n - 1)
        u == (n - 1) \div pow2(t)
    IN  \/ PowerMod(a, u, n) = 1
        \/ \E r \in 0 .. (t - 1) : PowerMod(a, pow2(r) * u, n) = n - 1

MissingPublicKey == "Exception: No public key is set"
MissingPrivateKey == "Exception: No private key is set"

GenerateReturned == ret.op = "generate_keypair" /\ ret.err = "none"

\* the last call was to op and has ended
Ended(op) == ret.op = op /\ ret.err # "running"

----------------------------------------------------------------------------
(* Properties *)

\* C1: for every key pair generate_keypair returned and every plaintext m
\* with 0 <= m < n, decrypting (to an integer) the ciphertext that encrypt
\* returned for m gives m.
C1_DecryptInvertsEncrypt ==
    (/\ ret.op = "decrypt"
     /\ ret.args[2] = "int"
     /\ wire # <<>>
     /\ ret.args[1] = wire[2]
     /\ wire[1] < public_key[1])
    => (ret.err = "none" /\ ret.val = wire[1])

\* C2 as stated: for every number >= 2 and every choice of one or more
\* witnesses in [2, number-2], the Miller-Rabin test returns true when the
\* number is prime and false when it is composite.
C2_MillerRabinDecidesPrimality ==
    (/\ Ended("miller_rabin_prime")
     /\ Len(ret.args[3]) = ret.args[2])
    => (ret.err = "none" /\ ret.val = IsPrime(ret.args[1]))

\* C2 as amended: for every number >= 2 and every choice of one or more
\* witnesses in [2, number-2], the Miller-Rabin test returns true when the
\* number is prime; when it is composite it returns false unless the number
\* is odd and every witness chosen is a strong liar for it, and then it
\* returns true. For 2 and 3 there is no witness to choose and the call
\* raises ValueError.
C2_MillerRabinUpToStrongLiars ==
    Ended("miller_rabin_prime") =>
        LET number == ret.args[1]
            witnesses == ret.args[2]
            draws == ret.args[3]
        IN  IF Len(draws) # witnesses
            THEN number \in {2, 3} /\ ret.err = "ValueError"
            ELSE /\ ret.err = "none"
                 /\ IsPrime(number) => ret.val = TRUE
                 /\ IsComposite(number) =>
                       ret.val = (/\ number % 2 = 1
                                  /\ \A k \in 1 .. witnesses :
                                        StrongLiar(draws[k], number))

\* C2, its case: a composite number is tested and the test returns true
C2_Witness ==
    /\ Ended("miller_rabin_prime")
    /\ ret.err = "none"
    /\ IsComposite(ret.args[1])
    /\ ret.val = TRUE

\* C3 as stated: every public key (n, e) that generate_keypair returns has
\* 1 < e < lambda and gcd(e, lambda) = 1, for lambda = lcm(p-1, q-1).
C3_ExponentInRangeAndCoprime ==
    GenerateReturned =>
        LET lambda == LCM(ret.frame.p - 1, ret.frame.q - 1)
            pub_e == ret.val[1][2]
        IN  1 < pub_e /\ pub_e < lambda /\ GCD(pub_e, lambda) = 1

\* C3 as amended: every public key (n, e) that generate_keypair returns has
\* 1 < e and gcd(e, lambda) = 1, for lambda = lcm(p-1, q-1); e < lambda
\* holds unless e is the initial value 19 and lambda < 19.
C3_ExponentCoprime ==
    GenerateReturned =>
        LET lambda == LCM(ret.frame.p - 1, ret.frame.q - 1)
            pub_e == ret.val[1][2]
        IN  /\ 1 < pub_e
            /\ GCD(pub_e, lambda) = 1
            /\ pub_e >= lambda => (pub_e = 19 /\ lambda < 19)
            /\ ret.val[1][1] = ret.frame.p * ret.frame.q

\* C3, its case: generate_keypair returned an e it had to resample
C3_Witness ==
    /\ GenerateReturned
    /\ ret.val[1][2] # 19
    /\ ret.val[1][2] < LCM(ret.frame.p - 1, ret.frame.q - 1)
    /\ public_key = ret.val[1]

\* C4: encrypt fails with a range error, and returns no ciphertext, whenever
\* the integer value of the plaintext is >= the modulus n of the public key.
C4_EncryptRejectsLargePlaintext ==
    (/\ ret.op = "encrypt"
     /\ public_key # NoAttr
     /\ plain_int(ret.args[1], byteorder) >= public_key[1])
    => ret.err = "RangeError"

\* C5: while no key half has been set, encrypt and decrypt fail with the
\* missing-key error.
C5_MissingKeyError ==
    /\ (ret.op = "encrypt" /\ public_key = NoAttr)
            => ret.err = MissingPublicKey
    /\ (ret.op = "decrypt" /\ private_key = NoAttr)
            => ret.err = MissingPrivateKey

\* C6: writing a key (modulus, exponent) under a label succeeds and puts it
\* in the file, and reading the file back yields the label and the key.
C6_PemRoundTrip ==
    /\ (ret.op = "save_key" /\ written # <<>>)
            => (ret.err = "none" /\ file # None)
    /\ (ret.op = "load_key" /\ written # <<>>)
            => (ret.val # None /\ ret.val = written)

\* C7: for base >= 0, exponent >= 0 and modulus >= 1, _modular_pow returns
\* (base ^ exponent) mod modulus, and so 0 when modulus = 1.
C7_ModularPowIsPowerMod ==
    Ended("modular_pow") =>
        /\ ret.val = Power(ret.args[1], ret.args[2]) % ret.args[3]
        /\ ret.args[3] = 1 => ret.val = 0

\* C7, its case: modPow(4, 13, 497) = 445
C7_Witness ==
    Ended("modular_pow") /\ ret.args = <<4, 13, 497>> /\ ret.val = 445

\* C8: for a >= 1 and n >= 1 with gcd(a, n) = 1, _mod_mult_inverse(a, n)
\* returns r with 0 <= r < n and (a * r) mod n = 1 mod n, also when a > n.
C8_ModInverse ==
    (Ended("mod_mult_inverse") /\ GCD(ret.args[1], ret.args[2]) = 1) =>
        /\ 0 <= ret.val /\ ret.val < ret.args[2]
        /\ (ret.args[1] * ret.val) % ret.args[2] = 1 % ret.args[2]

\* C8, its case: an inverse of an a > n > 1
C8_Witness ==
    /\ Ended("mod_mult_inverse")
    /\ ret.args[1] > ret.args[2] /\ ret.args[2] > 1
    /\ GCD(ret.args[1], ret.args[2]) = 1
    /\ (ret.args[1] * ret.val) % ret.args[2] = 1

\* C9: the primes p and q of a returned key pair have size // 2 bits with
\* the top bit set, and n = p * q has 2 * (size // 2) bits or one less.
C9_PrimesHaveTopBitSet ==
    GenerateReturned =>
        LET k == ret.frame.size \div 2
            n == ret.val[1][1]
        IN  /\ pow2(k - 1) <= ret.frame.p /\ ret.frame.p < pow2(k)
            /\ pow2(k - 1) <= ret.frame.q /\ ret.frame.q < pow2(k)
            /\ pow2(2 * k - 2) <= n /\ n < pow2(2 * k)

\* C10: on every candidate _find_prime draws, the Fermat test and the
\* Miller-Rabin test end with a boolean: no exception leaves them (and so
\* generate_keypair), and the loop that factors number - 1 is only entered
\* with a d it can reduce to an odd number.
C10_TestsEndWithBoolean ==
    /\ ret.op = "generate_keypair" => ret.err \in {"running", "none"}
    /\ pc = "mr_factor" => d > 0

====
